---- MODULE Spec2Model ----
(***************************************************************************)
(* FluxFeed stress-test seeding pipeline (scripts/stress-test.py):         *)
(* main -> run_migrations -> create_tags -> create_feeds ->                *)
(* create_articles -> print_stats, over one SQLite connection.             *)
(*                                                                         *)
(* Text is a sequence of character codes (ASCII): 46 '.', 48..57 digits,   *)
(* 95 '_', 97.. lower-case letters, 32 ' ', 10 LF, 13 CR; 255 is a byte    *)
(* that is not valid in the text encoding.                                 *)
(***************************************************************************)
EXTENDS Integers, Sequences, FiniteSets, TLC

VARIABLES
    dir,            \* MIGRATIONS_DIR: file name -> [bytes, ok]
    cfg,            \* NUM_FEEDS, NUM_ARTICLES, batch_size of this run
    disk,           \* DB_PATH: [exists, removed, db], the committed store
    conn,           \* the connection's view of the store (with uncommitted changes)
    open,           \* the connection is open
    pc,             \* position in main and the stage it calls
    error,          \* the exception that left the try block, or "none"
    mig,            \* run_migrations locals
    execLog,        \* names handed to executescript, in call order
    i,              \* loop counter of the running stage
    tag_ids,        \* create_tags result
    feed_ids,       \* create_feeds result
    articles_batch, \* create_articles buffer
    flushed,        \* the batches handed to executemany, in call order
    stats           \* print_stats output

vars == <<dir, cfg, disk, conn, open, pc, error, mig, execLog, i, tag_ids,
          feed_ids, articles_batch, flushed, stats>>

(***************************************************************************)
(* Bounds                                                                  *)
(***************************************************************************)
MaxFiles == 2       \* files in the migration directory
MaxFeeds == 2       \* NUM_FEEDS (1000 in the script)
MaxArticles == 3    \* NUM_ARTICLES (100000 in the script)
MaxBatch == 2       \* batch_size (1000 in the script)
MaxLorem == 1       \* distinct outcomes of the lorem generators
MaxTagList == 6     \* length of a tag_ids argument of create_feeds
SampleWindow == 2   \* random.sample: subsets of the first SampleWindow positions
MaxPre == 1         \* articles in the store at entry to create_articles

(***************************************************************************)
(* Program constants                                                       *)
(***************************************************************************)
NUM_TAGS == 50
TagVocabulary == 49
TAG_NAMES == [n \in 1..TagVocabulary |-> n]
MaxTagsPerFeed == 5
AllTriggers == {"articles_fts_insert", "articles_fts_update", "articles_fts_delete"}

Min(a, b) == IF a < b THEN a ELSE b
Range(s) == {s[k] : k \in DOMAIN s}

\* Python slice s[:n]
SliceTo(s, n) == SubSeq(s, 1, Min(n, Len(s)))

(***************************************************************************)
(* File names                                                              *)
(***************************************************************************)
DotSql == <<46, 115, 113, 108>>
IsDigit(c) == c >= 48 /\ c <= 57

\* str < str: code-point order, a proper prefix first
LexLess(a, b) ==
    \E k \in 1..(Min(Len(a), Len(b)) + 1) :
        /\ \A j \in 1..(k - 1) : a[j] = b[j]
        /\ \/ k = Len(a) + 1 /\ k <= Len(b)
           \/ k <= Len(a) /\ k <= Len(b) /\ a[k] < b[k]

\* sorted(MIGRATIONS_DIR.glob("*.sql")): ascending by file name
RECURSIVE SortedFiles(_)
SortedFiles(names) ==
    IF names = {} THEN <<>>
    ELSE LET m == CHOOSE x \in names : \A y \in names \ {x} : LexLess(x, y)
         IN <<m>> \o SortedFiles(names \ {m})

\* length of the longest prefix of digits
RECURSIVE DigitPrefix(_)
DigitPrefix(s) ==
    IF s # <<>> /\ IsDigit(Head(s)) THEN 1 + DigitPrefix(Tail(s)) ELSE 0

\* the pattern with (.*) in the place of (.+)
Matches_EmptyDescription(name) ==
    LET d == DigitPrefix(name)
    IN /\ d >= 1
       /\ Len(name) >= d + 1 + Len(DotSql)
       /\ name[d + 1] = 95

\* re.match(r"(\d+)_(.+)\.sql", name) for a name that ends in ".sql"
Matches(name) ==
    LET d == DigitPrefix(name)
    IN /\ d >= 1
       /\ Len(name) >= d + 1 + 1 + Len(DotSql)
       /\ name[d + 1] = 95

Group1(name) == SubSeq(name, 1, DigitPrefix(name))
Group2(name) == SubSeq(name, DigitPrefix(name) + 2, Len(name) - Len(DotSql))

\* int(digits)
RECURSIVE ParseInt(_)
ParseInt(s) ==
    IF s = <<>> THEN 0
    ELSE 10 * ParseInt(SubSeq(s, 1, Len(s) - 1)) + (s[Len(s)] - 48)

\* str.replace("_", " ")
ReplaceUnderscore(s) == [k \in DOMAIN s |-> IF s[k] = 95 THEN 32 ELSE s[k]]

(***************************************************************************)
(* File contents                                                           *)
(***************************************************************************)
\* Path.read_text(): decodable iff every byte is valid text
Decodable(bytes) == \A k \in DOMAIN bytes : bytes[k] # 255

\* universal newlines of read_text(): CRLF and a lone CR become LF
RECURSIVE ReadText(_)
ReadText(bytes) ==
    IF bytes = <<>> THEN <<>>
    ELSE IF Head(bytes) = 13
         THEN IF Len(bytes) >= 2 /\ bytes[2] = 10
              THEN <<10>> \o ReadText(Tail(Tail(bytes)))
              ELSE <<10>> \o ReadText(Tail(bytes))
         ELSE <<Head(bytes)>> \o ReadText(Tail(bytes))

\* str.encode(): the characters modelled are one byte each
Encode(text) == text

\* hashlib.sha384(b).digest(): a digest is identified by the bytes digested
Sha384(bytes) == <<"sha384", bytes>>

Checksum(sql) == Sha384(Encode(sql))

(***************************************************************************)
(* The store                                                               *)
(***************************************************************************)
\* a store file without any schema object; gen tells the files at DB_PATH apart
EmptyDb(g) ==
    [gen |-> g, hasTracking |-> FALSE, tracking |-> <<>>, applied |-> {},
     partial |-> {}, triggers |-> {}, tags |-> <<>>, feeds |-> <<>>,
     feed_tags |-> <<>>, articles |-> <<>>, fts |-> <<>>]

\* no file at DB_PATH; removed: a file was unlinked there
NoFile == [exists |-> FALSE, removed |-> FALSE, db |-> EmptyDb(0)]

\* the tables of the store schema exist once a migration script has created them
HasSchema(db) == db.applied # {}

\* conn.executescript(sql) that runs to its end: the script's schema objects,
\* among them the FTS mirror and its maintenance triggers
ExecScript(db, name) ==
    [db EXCEPT !.applied = @ \cup {name}, !.triggers = AllTriggers]

\* conn.executescript(sql) that fails part-way: what ran before stays
ExecScriptFailed(db, name) == [db EXCEPT !.partial = @ \cup {name}]

\* cursor.lastrowid of an insert into a rowid table
NextId(rows) ==
    IF rows = <<>> THEN 1
    ELSE 1 + (CHOOSE m \in {rows[k].id : k \in DOMAIN rows} :
                 \A k \in DOMAIN rows : rows[k].id <= m)

\* the FTS entry of an article: rowid, article_id, title, content, summary, author
FtsEntry(a) ==
    [rowid |-> a.id, article_id |-> a.id, title |-> a.title,
     content |-> a.content, summary |-> a.summary, author |-> a.author]

FtsRowids(db) == {db.fts[k].rowid : k \in DOMAIN db.fts}

\* INSERT INTO articles of one record, with the articles_fts_insert trigger
InsertArticle(db, rec) ==
    LET row == [id |-> NextId(db.articles), feed_id |-> rec.feed_id,
                title |-> rec.title, content |-> rec.content,
                summary |-> rec.summary, author |-> rec.author]
    IN [db EXCEPT !.articles = Append(@, row),
                  !.fts = IF "articles_fts_insert" \in db.triggers
                          THEN Append(@, FtsEntry(row)) ELSE @]

\* cursor.executemany(INSERT INTO articles ..., batch)
RECURSIVE InsertMany(_, _)
InsertMany(db, batch) ==
    IF batch = <<>> THEN db
    ELSE InsertMany(InsertArticle(db, Head(batch)), Tail(batch))

\* the SELECT with the title column in the place of content
SelectForFts_TitleAsContent(db) ==
    [k \in DOMAIN db.articles |->
        [FtsEntry(db.articles[k]) EXCEPT !.content = db.articles[k].title]]

\* SELECT id, id, title, content, summary, author FROM articles
SelectForFts(db) == [k \in DOMAIN db.articles |-> FtsEntry(db.articles[k])]

(***************************************************************************)
(* Inputs                                                                  *)
(***************************************************************************)
\* "1_a.sql" "2_a.sql" "9_a.sql" "10_a.sql" "01_b.sql" "3_a_b.sql",
\* and the malformed "a.sql" "1a.sql" "1_.sql"
FileNames ==
    {s \o DotSql : s \in {<<49, 95, 97>>, <<50, 95, 97>>, <<57, 95, 97>>,
                          <<49, 48, 95, 97>>, <<48, 49, 95, 98>>,
                          <<51, 95, 97, 95, 98>>,
                          <<97>>, <<49, 97>>, <<49, 95>>}}

\* "a", "a\n", "a\r\n", "\r", and a content that is not text
Contents == {<<97>>, <<97, 10>>, <<97, 13, 10>>, <<13>>, <<255>>}
PlainContents == {<<97>>}

\* a directory of at most MaxFiles migration files; ok: the script executes
Dirs(names, contents) ==
    UNION {[S -> [bytes : contents, ok : BOOLEAN]] :
              S \in {T \in SUBSET names : Cardinality(T) <= MaxFiles}}

\* the joint outcome w of the lorem generators for article number n
LoremArticle(n, w) ==
    [title |-> <<"Article", n, w>>, content |-> <<"content", w>>,
     summary |-> <<"summary", w>>, author |-> <<"author", w>>]

\* a store left by an earlier run: gen 0, m migrations, t tags, f feeds, a articles
PriorDb(m, t, f, a) ==
    [gen |-> 0, hasTracking |-> TRUE,
     tracking |-> [k \in 1..m |->
                     [version |-> k, description |-> <<97>>, success |-> TRUE,
                      checksum |-> Sha384(<<97>>), execution_time |-> 1000000]],
     applied |-> {<<48 + k, 95, 97>> \o DotSql : k \in 1..m},
     partial |-> {},
     triggers |-> IF m > 0 THEN AllTriggers ELSE {},
     tags |-> [k \in 1..t |-> [id |-> k, name |-> TAG_NAMES[k]]],
     feeds |-> [k \in 1..f |-> [id |-> k, seq |-> k]],
     feed_tags |-> [k \in 1..Min(f, t) |-> <<k, 1>>],
     articles |-> [k \in 1..a |-> [id |-> k, feed_id |-> 1] @@ LoremArticle(k, 1)],
     fts |-> [k \in 1..a |->
                FtsEntry([id |-> k, feed_id |-> 1] @@ LoremArticle(k, 1))]]

\* DB_PATH before the run: absent, an empty file, an aborted run, a complete run
PriorStores ==
    {NoFile,
     [exists |-> TRUE, removed |-> FALSE, db |-> EmptyDb(0)],
     [exists |-> TRUE, removed |-> FALSE, db |-> PriorDb(1, 2, 0, 0)],
     [exists |-> TRUE, removed |-> FALSE, db |-> PriorDb(2, 2, 1, 2)]}

NoMig ==
    [queue |-> <<>>, file |-> <<>>, sql |-> <<>>, version |-> 0,
     description |-> <<>>, checksum |-> <<>>]

Init ==
    /\ dir \in Dirs(FileNames, PlainContents)
    /\ cfg \in [NUM_FEEDS : {1}, NUM_ARTICLES : 0..MaxArticles,
                batch_size : 1..MaxBatch]
    /\ disk \in PriorStores
    /\ conn = EmptyDb(0)
    /\ open = FALSE
    /\ pc = "main"
    /\ error = "none"
    /\ mig = NoMig
    /\ execLog = <<>>
    /\ i = 0
    /\ tag_ids = <<>>
    /\ feed_ids = <<>>
    /\ articles_batch = <<>>
    /\ flushed = <<>>
    /\ stats = <<>>

(***************************************************************************)
(* main                                                                    *)
(***************************************************************************)
\* conn.commit(): the connection's view becomes the committed store
Commit(db) == [disk EXCEPT !.exists = TRUE, !.db = db]

\* an exception leaves the try block of main
Raise(e) == pc' = "finally" /\ error' = e

\* the start of main without the unlink
RemoveExisting_Keep(d) == d

\* if DB_PATH.exists(): DB_PATH.unlink()
RemoveExisting(d) == IF d.exists THEN [NoFile EXCEPT !.removed = TRUE] ELSE d

MainRemoveExisting ==
    /\ pc = "main"
    /\ disk' = RemoveExisting(disk)
    /\ pc' = "connect"
    /\ UNCHANGED <<dir, cfg, conn, open, error, mig, execLog, i, tag_ids,
                   feed_ids, articles_batch, flushed, stats>>

\* sqlite3.connect(DB_PATH): opens the file, creating it when absent
MainConnect ==
    /\ pc = "connect"
    /\ disk' = IF disk.exists THEN disk ELSE Commit(EmptyDb(1))
    /\ conn' = disk'.db
    /\ open' = TRUE
    /\ pc' = "mig_begin"
    /\ UNCHANGED <<dir, cfg, error, mig, execLog, i, tag_ids, feed_ids,
                   articles_batch, flushed, stats>>

\* the connection commits when it is closed
MainFinally_CommitOnClose ==
    /\ pc = "finally"
    /\ open' = FALSE
    /\ disk' = [disk EXCEPT !.exists = TRUE, !.db = conn]
    /\ pc' = IF error = "none" THEN "done" ELSE "failed"
    /\ UNCHANGED <<dir, cfg, conn, error, mig, execLog, i, tag_ids, feed_ids,
                   articles_batch, flushed, stats>>

\* finally: conn.close(); what was not committed is gone
MainFinally ==
    /\ pc = "finally"
    /\ open' = FALSE
    /\ conn' = disk.db
    /\ pc' = IF error = "none" THEN "done" ELSE "failed"
    /\ UNCHANGED <<dir, cfg, disk, error, mig, execLog, i, tag_ids, feed_ids,
                   articles_batch, flushed, stats>>

(***************************************************************************)
(* run_migrations                                                          *)
(***************************************************************************)
\* CREATE TABLE IF NOT EXISTS _sqlx_migrations; commit; list the files
MigBegin ==
    /\ pc = "mig_begin"
    /\ conn' = [conn EXCEPT !.hasTracking = TRUE]
    /\ disk' = Commit(conn')
    /\ mig' = [NoMig EXCEPT !.queue = SortedFiles(DOMAIN dir)]
    /\ pc' = "mig_loop"
    /\ UNCHANGED <<dir, cfg, open, error, execLog, i, tag_ids, feed_ids,
                   articles_batch, flushed, stats>>

\* for migration_file in migration_files: sql = migration_file.read_text()
MigRead ==
    /\ pc = "mig_loop"
    /\ mig.queue # <<>>
    /\ LET file == Head(mig.queue)
       IN IF Decodable(dir[file].bytes)
          THEN /\ mig' = [NoMig EXCEPT !.queue = Tail(mig.queue), !.file = file,
                                       !.sql = ReadText(dir[file].bytes)]
               /\ pc' = "mig_parse"
               /\ UNCHANGED error
          ELSE /\ Raise("UnicodeDecodeError")
               /\ mig' = [NoMig EXCEPT !.queue = Tail(mig.queue), !.file = file]
    /\ UNCHANGED <<dir, cfg, disk, conn, open, execLog, i, tag_ids, feed_ids,
                   articles_batch, flushed, stats>>

\* match, version, description, checksum
MigParse ==
    /\ pc = "mig_parse"
    /\ IF Matches(mig.file)
       THEN /\ mig' = [mig EXCEPT
                         !.version = ParseInt(Group1(mig.file)),
                         !.description = ReplaceUnderscore(Group2(mig.file)),
                         !.checksum = Checksum(mig.sql)]
            /\ pc' = "mig_exec"
            /\ UNCHANGED error
       ELSE /\ Raise("ValueError")
            /\ UNCHANGED mig
    /\ UNCHANGED <<dir, cfg, disk, conn, open, execLog, i, tag_ids, feed_ids,
                   articles_batch, flushed, stats>>

\* executescript inside try/except: a failing script does not stop the loop
MigExec_Swallow ==
    /\ pc = "mig_exec"
    /\ execLog' = Append(execLog, mig.file)
    /\ conn' = IF dir[mig.file].ok THEN ExecScript(conn, mig.file)
               ELSE ExecScriptFailed(conn, mig.file)
    /\ pc' = "mig_record"
    /\ disk' = Commit(conn')
    /\ UNCHANGED <<dir, cfg, open, error, mig, i, tag_ids, feed_ids,
                   articles_batch, flushed, stats>>

\* conn.executescript(sql): runs outside a transaction, each statement durable
MigExec ==
    /\ pc = "mig_exec"
    /\ execLog' = Append(execLog, mig.file)
    /\ IF dir[mig.file].ok
       THEN /\ conn' = ExecScript(conn, mig.file)
            /\ pc' = "mig_record"
            /\ UNCHANGED error
       ELSE /\ conn' = ExecScriptFailed(conn, mig.file)
            /\ Raise("OperationalError")
    /\ disk' = Commit(conn')
    /\ UNCHANGED <<dir, cfg, open, mig, i, tag_ids, feed_ids, articles_batch,
                   flushed, stats>>

TrackingVersions(db) == {db.tracking[k].version : k \in DOMAIN db.tracking}

\* INSERT INTO _sqlx_migrations (version is the primary key); commit
MigRecord ==
    /\ pc = "mig_record"
    /\ IF mig.version \in TrackingVersions(conn)
       THEN /\ Raise("IntegrityError")
            /\ UNCHANGED <<conn, disk>>
       ELSE /\ conn' = [conn EXCEPT !.tracking = Append(@,
                          [version |-> mig.version,
                           description |-> mig.description,
                           success |-> TRUE,
                           checksum |-> mig.checksum,
                           execution_time |-> 1000000])]
            /\ disk' = Commit(conn')
            /\ pc' = "mig_loop"
            /\ UNCHANGED error
    /\ UNCHANGED <<dir, cfg, open, mig, execLog, i, tag_ids, feed_ids,
                   articles_batch, flushed, stats>>

\* the loop is exhausted: run_migrations returns
MigReturn ==
    /\ pc = "mig_loop"
    /\ mig.queue = <<>>
    /\ pc' = "tags"
    /\ i' = 0
    /\ UNCHANGED <<dir, cfg, disk, conn, open, error, mig, execLog, tag_ids,
                   feed_ids, articles_batch, flushed, stats>>

(***************************************************************************)
(* create_tags                                                             *)
(***************************************************************************)
\* TAG_NAMES[:NUM_TAGS]
TagNamesToCreate == SliceTo(TAG_NAMES, NUM_TAGS)

\* INSERT INTO tags (name is unique); tag_ids.append(cursor.lastrowid)
TagInsert ==
    /\ pc = "tags"
    /\ i < Len(TagNamesToCreate)
    /\ IF ~HasSchema(conn)
       THEN /\ Raise("OperationalError")
            /\ UNCHANGED <<conn, tag_ids, i>>
       ELSE IF \E k \in DOMAIN conn.tags : conn.tags[k].name = TagNamesToCreate[i + 1]
       THEN /\ Raise("IntegrityError")
            /\ UNCHANGED <<conn, tag_ids, i>>
       ELSE /\ conn' = [conn EXCEPT !.tags = Append(@,
                          [id |-> NextId(conn.tags), name |-> TagNamesToCreate[i + 1]])]
            /\ tag_ids' = Append(tag_ids, NextId(conn.tags))
            /\ i' = i + 1
            /\ UNCHANGED <<pc, error>>
    /\ UNCHANGED <<dir, cfg, disk, open, mig, execLog, feed_ids, articles_batch,
                   flushed, stats>>

\* conn.commit(); return tag_ids
TagCommit ==
    /\ pc = "tags"
    /\ i = Len(TagNamesToCreate)
    /\ disk' = Commit(conn)
    /\ pc' = "feeds"
    /\ i' = 0
    /\ UNCHANGED <<dir, cfg, conn, open, error, mig, execLog, tag_ids, feed_ids,
                   articles_batch, flushed, stats>>

(***************************************************************************)
(* create_feeds                                                            *)
(***************************************************************************)
\* the elements of ids at the positions P, in list order
RECURSIVE Pick(_, _)
Pick(ids, P) ==
    IF P = {} THEN <<>>
    ELSE LET p == CHOOSE q \in P : \A r \in P : q <= r
         IN <<ids[p]>> \o Pick(ids, P \ {p})

\* random.sample(ids, k): the elements at k distinct positions of ids; the
\* position sets enumerated are the k-subsets of the first SampleWindow
\* positions and the k first positions
Samples(ids, k) ==
    {Pick(ids, P) :
        P \in {Q \in SUBSET (1..Min(Len(ids), SampleWindow)) : Cardinality(Q) = k}
              \cup {1..k}}

\* random.randint(0, 6)
NumTagsChoices_UpToSix == 0..(MaxTagsPerFeed + 1)

\* random.randint(0, 5)
NumTagsChoices == 0..MaxTagsPerFeed

\* min(num_tags, len(tag_ids))
SampleSize(num_tags, ids) == Min(num_tags, Len(ids))

\* INSERT OR IGNORE INTO feed_tags for each selected tag: (feed_id, tag_id) is unique
RECURSIVE InsertFeedTags(_, _, _)
InsertFeedTags(rows, fid, selected) ==
    IF selected = <<>> THEN rows
    ELSE InsertFeedTags(IF <<fid, Head(selected)>> \in Range(rows) THEN rows
                        ELSE Append(rows, <<fid, Head(selected)>>),
                        fid, Tail(selected))

\* one iteration: insert the feed (url is unique), then its 0-5 tags
FeedInsert ==
    /\ pc = "feeds"
    /\ i < cfg.NUM_FEEDS
    /\ IF \E k \in DOMAIN conn.feeds : conn.feeds[k].seq = i + 1
       THEN /\ Raise("IntegrityError")
            /\ UNCHANGED <<conn, feed_ids, i>>
       ELSE /\ \E num_tags \in NumTagsChoices :
                 LET fid == NextId(conn.feeds)
                     withFeed == [conn EXCEPT !.feeds =
                                    Append(@, [id |-> fid, seq |-> i + 1])]
                 IN IF num_tags > 0 /\ tag_ids # <<>>
                    THEN \E selected \in Samples(tag_ids, SampleSize(num_tags, tag_ids)) :
                           conn' = [withFeed EXCEPT !.feed_tags =
                                      InsertFeedTags(@, fid, selected)]
                    ELSE conn' = withFeed
            /\ feed_ids' = Append(feed_ids, NextId(conn.feeds))
            /\ i' = i + 1
            /\ UNCHANGED <<pc, error>>
    /\ UNCHANGED <<dir, cfg, disk, open, mig, execLog, tag_ids, articles_batch,
                   flushed, stats>>

\* conn.commit(); return feed_ids
FeedCommit ==
    /\ pc = "feeds"
    /\ i = cfg.NUM_FEEDS
    /\ disk' = Commit(conn)
    /\ pc' = "art_suspend"
    /\ i' = 0
    /\ UNCHANGED <<dir, cfg, conn, open, error, mig, execLog, tag_ids, feed_ids,
                   articles_batch, flushed, stats>>

(***************************************************************************)
(* create_articles                                                         *)
(***************************************************************************)
\* only the insert trigger is dropped
DropTriggers_InsertOnly(db) == [db EXCEPT !.triggers = @ \ {"articles_fts_insert"}]

\* DROP TRIGGER IF EXISTS for the three maintenance triggers
DropTriggers(db) == [db EXCEPT !.triggers = @ \ AllTriggers]

\* CREATE TRIGGER IF NOT EXISTS for the three maintenance triggers
CreateTriggers(db) == [db EXCEPT !.triggers = @ \cup AllTriggers]

\* drop the triggers; commit; articles_batch = []
ArtSuspend ==
    /\ pc = "art_suspend"
    /\ conn' = DropTriggers(conn)
    /\ disk' = Commit(conn')
    /\ articles_batch' = <<>>
    /\ i' = 0
    /\ pc' = "art_loop"
    /\ UNCHANGED <<dir, cfg, open, error, mig, execLog, tag_ids, feed_ids,
                   flushed, stats>>

\* the flush test with > in the place of >=
BatchFull_Strict(batch, size) == Len(batch) > size

\* len(articles_batch) >= batch_size
BatchFull(batch, size) == Len(batch) >= size

\* one iteration: generate record i + 1, append it, flush a full batch
ArtGenerate ==
    /\ pc = "art_loop"
    /\ i < cfg.NUM_ARTICLES
    /\ IF feed_ids = <<>>
       THEN /\ Raise("IndexError")
            /\ UNCHANGED <<conn, disk, articles_batch, flushed, i>>
       ELSE /\ \E f \in Range(feed_ids), w \in 1..MaxLorem :
                 LET batch == Append(articles_batch,
                                     [feed_id |-> f] @@ LoremArticle(i + 1, w))
                 IN IF BatchFull(batch, cfg.batch_size)
                    THEN /\ conn' = InsertMany(conn, batch)
                         /\ disk' = Commit(conn')
                         /\ flushed' = Append(flushed, batch)
                         /\ articles_batch' = <<>>
                    ELSE /\ articles_batch' = batch
                         /\ UNCHANGED <<conn, disk, flushed>>
            /\ i' = i + 1
            /\ UNCHANGED <<pc, error>>
    /\ UNCHANGED <<dir, cfg, open, mig, execLog, tag_ids, feed_ids, stats>>

\* if articles_batch: insert the remaining records; commit
ArtRemainder ==
    /\ pc = "art_loop"
    /\ i = cfg.NUM_ARTICLES
    /\ IF articles_batch # <<>>
       THEN /\ conn' = InsertMany(conn, articles_batch)
            /\ disk' = Commit(conn')
            /\ flushed' = Append(flushed, articles_batch)
       ELSE UNCHANGED <<conn, disk, flushed>>
    /\ pc' = "art_rebuild"
    /\ UNCHANGED <<dir, cfg, open, error, mig, execLog, i, tag_ids, feed_ids,
                   articles_batch, stats>>

\* what the store does with an FTS insert: a rowid already in the mirror is
\* either refused (constraint) or indexed a second time, depending on how the
\* migration declared articles_fts
RebuildOutcomes(db) ==
    IF \E k \in DOMAIN db.articles : db.articles[k].id \in FtsRowids(db)
    THEN {"constraint", "duplicate"}
    ELSE {"inserted"}

\* INSERT INTO articles_fts(...) SELECT ... FROM articles
Rebuild(db) == [db EXCEPT !.fts = @ \o SelectForFts(db)]

\* bulk-populate the FTS table; commit
ArtRebuild ==
    /\ pc = "art_rebuild"
    /\ \E outcome \in RebuildOutcomes(conn) :
          IF outcome = "constraint"
          THEN /\ Raise("IntegrityError")
               /\ UNCHANGED <<conn, disk>>
          ELSE /\ conn' = Rebuild(conn)
               /\ disk' = Commit(conn')
               /\ pc' = "art_triggers"
               /\ UNCHANGED error
    /\ UNCHANGED <<dir, cfg, open, mig, execLog, i, tag_ids, feed_ids,
                   articles_batch, flushed, stats>>

\* recreate the three triggers; commit; return
ArtRecreate ==
    /\ pc = "art_triggers"
    /\ conn' = CreateTriggers(conn)
    /\ disk' = Commit(conn')
    /\ pc' = "stats"
    /\ UNCHANGED <<dir, cfg, open, error, mig, execLog, i, tag_ids, feed_ids,
                   articles_batch, flushed, stats>>

(***************************************************************************)
(* print_stats                                                             *)
(***************************************************************************)
\* the four COUNT(*) queries; main leaves the try block normally
PrintStats ==
    /\ pc = "stats"
    /\ stats' = [feeds |-> Len(conn.feeds), articles |-> Len(conn.articles),
                 tags |-> Len(conn.tags),
                 feed_tags |-> Len(conn.feed_tags)]
    /\ pc' = "finally"
    /\ UNCHANGED <<dir, cfg, disk, conn, open, error, mig, execLog, i, tag_ids,
                   feed_ids, articles_batch, flushed>>

(***************************************************************************)
(* Store failures                                                          *)
(***************************************************************************)
\* the next statement or commit of a seeding stage raises (store I/O
\* failure): nothing of it is applied and the exception leaves main's try
StoreFailure ==
    /\ pc \in {"tags", "feeds", "art_suspend", "art_loop", "art_rebuild",
               "art_triggers", "stats"}
    /\ Raise("OperationalError")
    /\ UNCHANGED <<dir, cfg, disk, conn, open, mig, execLog, i, tag_ids,
                   feed_ids, articles_batch, flushed, stats>>

\* cursor.executemany raises after inserting the first n records of the
\* batch: they stay in the open transaction, the commit is not reached
FlushFailure ==
    /\ pc = "art_loop"
    /\ feed_ids # <<>>
    /\ \E f \in Range(feed_ids), w \in 1..MaxLorem :
          LET batch == IF i < cfg.NUM_ARTICLES
                       THEN Append(articles_batch,
                                   [feed_id |-> f] @@ LoremArticle(i + 1, w))
                       ELSE articles_batch
          IN /\ IF i < cfg.NUM_ARTICLES THEN BatchFull(batch, cfg.batch_size)
                ELSE batch # <<>>
             /\ \E n \in 0..(Len(batch) - 1) :
                   conn' = InsertMany(conn, SubSeq(batch, 1, n))
             /\ articles_batch' = batch
    /\ Raise("OperationalError")
    /\ UNCHANGED <<dir, cfg, disk, open, mig, execLog, i, tag_ids, feed_ids,
                   flushed, stats>>

(***************************************************************************)
(* Specifications                                                          *)
(***************************************************************************)
Next ==
    \/ MainRemoveExisting \/ MainConnect \/ MainFinally
    \/ MigBegin \/ MigRead \/ MigParse \/ MigExec \/ MigRecord \/ MigReturn
    \/ TagInsert \/ TagCommit
    \/ FeedInsert \/ FeedCommit
    \/ ArtSuspend \/ ArtGenerate \/ ArtRemainder \/ ArtRebuild \/ ArtRecreate
    \/ PrintStats

Spec == Init /\ [][Next]_vars

\* "1_a.sql" "2_a.sql"
FailNames == {<<49, 95, 97>> \o DotSql, <<50, 95, 97>> \o DotSql}

\* main on an absent target, with store failures in the seeding stages
InitFail ==
    /\ dir \in Dirs(FailNames, PlainContents)
    /\ cfg \in [NUM_FEEDS : {1}, NUM_ARTICLES : 0..MaxArticles,
                batch_size : 1..MaxBatch]
    /\ disk = NoFile
    /\ conn = EmptyDb(0)
    /\ open = FALSE
    /\ pc = "main"
    /\ error = "none"
    /\ mig = NoMig
    /\ execLog = <<>>
    /\ i = 0
    /\ tag_ids = <<>>
    /\ feed_ids = <<>>
    /\ articles_batch = <<>>
    /\ flushed = <<>>
    /\ stats = <<>>

NextFail == Next \/ StoreFailure \/ FlushFailure

SpecFail == InitFail /\ [][NextFail]_vars

\* run_migrations alone, on a fresh store, over every directory
InitMig ==
    /\ dir \in Dirs(FileNames, Contents)
    /\ cfg = [NUM_FEEDS |-> 1, NUM_ARTICLES |-> 0, batch_size |-> 1]
    /\ disk = [exists |-> TRUE, removed |-> FALSE, db |-> EmptyDb(1)]
    /\ conn = EmptyDb(1)
    /\ open = TRUE
    /\ pc = "mig_begin"
    /\ error = "none"
    /\ mig = NoMig
    /\ execLog = <<>>
    /\ i = 0
    /\ tag_ids = <<>>
    /\ feed_ids = <<>>
    /\ articles_batch = <<>>
    /\ flushed = <<>>
    /\ stats = <<>>

NextMig ==
    \/ MigBegin \/ MigRead \/ MigParse \/ MigExec \/ MigRecord \/ MigReturn
    \/ MainFinally

SpecMig == InitMig /\ [][NextMig]_vars

\* a migrated store of this run with t tags, f feeds, a mirrored articles
SeededDb(t, f, a) == [PriorDb(1, t, f, a) EXCEPT !.gen = 1, !.feed_tags = <<>>]

\* create_feeds alone, for every tag list create_tags can return
InitFeeds ==
    /\ dir = <<>>
    /\ cfg \in [NUM_FEEDS : 0..MaxFeeds, NUM_ARTICLES : {0}, batch_size : {1}]
    /\ \E t \in 0..MaxTagList :
          /\ conn = SeededDb(t, 0, 0)
          /\ tag_ids = [k \in 1..t |-> k]
    /\ disk = [exists |-> TRUE, removed |-> FALSE, db |-> conn]
    /\ open = TRUE
    /\ pc = "feeds"
    /\ error = "none"
    /\ mig = NoMig
    /\ execLog = <<>>
    /\ i = 0
    /\ feed_ids = <<>>
    /\ articles_batch = <<>>
    /\ flushed = <<>>
    /\ stats = <<>>

NextFeeds == FeedInsert \/ FeedCommit

SpecFeeds == InitFeeds /\ [][NextFeeds]_vars

\* create_articles alone, for every store whose FTS mirror is in sync at entry
InitArticles ==
    /\ dir = <<>>
    /\ cfg \in [NUM_FEEDS : 1..MaxFeeds, NUM_ARTICLES : 0..MaxArticles,
                batch_size : 1..MaxBatch]
    /\ \E a \in 0..MaxPre, trg \in {{}, AllTriggers} :
          conn = [SeededDb(1, cfg.NUM_FEEDS, a) EXCEPT !.triggers = trg]
    /\ disk = [exists |-> TRUE, removed |-> FALSE, db |-> conn]
    /\ open = TRUE
    /\ pc = "art_suspend"
    /\ error = "none"
    /\ mig = NoMig
    /\ execLog = <<>>
    /\ i = 0
    /\ tag_ids = <<1>>
    /\ feed_ids = [k \in 1..cfg.NUM_FEEDS |-> k]
    /\ articles_batch = <<>>
    /\ flushed = <<>>
    /\ stats = <<>>

NextArticles ==
    \/ ArtSuspend \/ ArtGenerate \/ ArtRemainder \/ ArtRebuild \/ ArtRecreate
    \/ MainFinally

SpecArticles == InitArticles /\ [][NextArticles]_vars

(***************************************************************************)
(* Properties                                                              *)
(***************************************************************************)
\* create_articles has returned to main
AfterCreateArticles ==
    pc = "stats" \/ (pc \in {"finally", "done"} /\ error = "none")

\* the mirror holds exactly one entry per article, none without an article,
\* and every entry carries its article's four text fields
MirrorExact(db) ==
    /\ Len(db.fts) = Len(db.articles)
    /\ \A k1, k2 \in DOMAIN db.articles :
          db.articles[k1].id = db.articles[k2].id => k1 = k2
    /\ \A k \in DOMAIN db.articles :
          Cardinality({j \in DOMAIN db.fts :
                          db.fts[j].rowid = db.articles[k].id}) = 1
    /\ \A j \in DOMAIN db.fts :
          \E k \in DOMAIN db.articles :
             /\ db.fts[j].rowid = db.articles[k].id
             /\ db.fts[j].article_id = db.articles[k].id
             /\ db.fts[j].title = db.articles[k].title
             /\ db.fts[j].content = db.articles[k].content
             /\ db.fts[j].summary = db.articles[k].summary
             /\ db.fts[j].author = db.articles[k].author

\* C1: after a full run against an empty target, once create_articles has
\* returned, articles_fts holds exactly one entry per article (equal counts,
\* id -> rowid a bijection) and each entry's title, content, summary and
\* author are those of its article; this holds of the connection's view and
\* of the committed store.
C1_FtsMirrorsArticles ==
    AfterCreateArticles => MirrorExact(conn) /\ MirrorExact(disk.db)

C1_Witness ==
    /\ pc = "stats"
    /\ Len(conn.articles) >= 3
    /\ Len(conn.fts) >= 3
    /\ Len(flushed) >= 2

\* C2: after a full run the tags table holds NUM_TAGS rows and create_tags
\* returned NUM_TAGS identifiers.
C2_TagCountIsNumTags ==
    pc = "done" => Len(disk.db.tags) = NUM_TAGS /\ Len(tag_ids) = NUM_TAGS

RECURSIVE Flat(_)
Flat(batches) ==
    IF batches = <<>> THEN <<>> ELSE Head(batches) \o Flat(Tail(batches))

\* every generated record 1..K was flushed once, in order, into a batch of at
\* most B records, all batches but the last of exactly B, and the table holds
\* exactly these K rows
BatchesExact ==
    LET all == Flat(flushed)
        K == cfg.NUM_ARTICLES
        B == cfg.batch_size
    IN /\ Len(conn.articles) = K
       /\ Len(disk.db.articles) = K
       /\ Len(all) = K
       /\ \A n \in 1..K :
             /\ all[n].title[2] = n
             /\ conn.articles[n].title = all[n].title
             /\ conn.articles[n].feed_id = all[n].feed_id
       /\ \A j \in DOMAIN flushed : Len(flushed[j]) >= 1 /\ Len(flushed[j]) <= B
       /\ \A j \in 1..(Len(flushed) - 1) : Len(flushed[j]) = B

\* C3 (as claimed): for every K >= 0 and B >= 1 create_articles inserts
\* exactly K rows, each record flushed in exactly one batch, every batch but
\* the last of exactly B records, and the buffer is empty at return.
C3_BufferEmptyAtReturn ==
    AfterCreateArticles => BatchesExact /\ articles_batch = <<>>

\* C3 (amended): as claimed, except that at return the buffer holds no
\* unflushed record: it is empty when B divides K and otherwise still holds
\* the records of the final, already inserted, remainder batch.
C3_BatchesExact ==
    AfterCreateArticles =>
       /\ BatchesExact
       /\ articles_batch = IF cfg.NUM_ARTICLES % cfg.batch_size = 0 THEN <<>>
                           ELSE flushed[Len(flushed)]

C3_Witness ==
    /\ pc = "stats"
    /\ cfg.NUM_ARTICLES = 3
    /\ cfg.batch_size = 2
    /\ Len(flushed) = 2
    /\ Len(flushed[2]) = 1
    /\ Len(conn.articles) = 3

\* <digits>_<text>.sql
WellNamed(n) ==
    \E d \in 1..Len(n) :
       /\ \A k \in 1..d : IsDigit(n[k])
       /\ Len(n) >= d + 2 + Len(DotSql)
       /\ n[d + 1] = 95
       /\ SubSeq(n, Len(n) - Len(DotSql) + 1, Len(n)) = DotSql

\* the version a well-named file carries
VersionOf(n) == ParseInt(Group1(n))

\* C4: for every directory of well-named files, run_migrations executes the
\* scripts in ascending numeric version order, the tracking records are
\* inserted in ascending version order with unique versions, and when it
\* returns there is exactly one record per file.  Stated for directories
\* whose versions are pairwise distinct.
C4_AscendingVersionOrder ==
    (/\ \A n \in DOMAIN dir : WellNamed(n)
     /\ \A n, m \in DOMAIN dir : VersionOf(n) = VersionOf(m) => n = m) =>
       /\ \A j, k \in DOMAIN execLog :
             j < k => VersionOf(execLog[j]) < VersionOf(execLog[k])
       /\ \A j, k \in DOMAIN conn.tracking :
             j < k => conn.tracking[j].version < conn.tracking[k].version
       /\ pc = "tags" => /\ Len(conn.tracking) = Cardinality(DOMAIN dir)
                         /\ Len(execLog) = Cardinality(DOMAIN dir)

\* every tracking record is a success record of a script that ran to its end
TrackingSound(db) ==
    \A k \in DOMAIN db.tracking :
       /\ db.tracking[k].success = TRUE
       /\ \E n \in db.applied :
             WellNamed(n) /\ VersionOf(n) = db.tracking[k].version

\* C5: at every state every tracking record has success = true and belongs
\* to a migration whose script executed to completion; once a script has
\* failed the run is aborting: the failing script was executed once and is
\* the last one executed, it has no record, the records of the migrations
\* applied before it remain (committed), and no later stage has run.
C5_FailedMigrationAborts ==
    /\ TrackingSound(conn)
    /\ TrackingSound(disk.db)
    /\ conn.partial # {} =>
          LET n == Len(execLog)
          IN /\ pc \in {"finally", "failed"}
             /\ error = "OperationalError"
             /\ n >= 1
             /\ conn.partial = {execLog[n]}
             /\ execLog[n] \notin conn.applied
             /\ \A j \in 1..(n - 1) : execLog[j] # execLog[n]
             /\ Len(disk.db.tracking) = n - 1
             /\ \A j \in 1..(n - 1) :
                   /\ disk.db.tracking[j].version = VersionOf(execLog[j])
                   /\ execLog[j] \in disk.db.applied
             /\ conn.tags = <<>> /\ conn.feeds = <<>> /\ conn.feed_tags = <<>>
             /\ conn.articles = <<>> /\ conn.fts = <<>>
             /\ tag_ids = <<>> /\ feed_ids = <<>> /\ flushed = <<>>
             /\ stats = <<>>

C5_Witness ==
    /\ pc = "failed"
    /\ error = "OperationalError"
    /\ conn.partial # {}
    /\ Len(disk.db.tracking) = 1

\* the loop of run_migrations has reached a file whose name is malformed
AtMalformed == mig.file # <<>> /\ ~WellNamed(mig.file)

\* neither the malformed file nor a file after it was executed or recorded,
\* and the store is as the preceding migrations left it
MalformedLeavesStore ==
    /\ \A n \in DOMAIN dir :
          ~WellNamed(n) =>
             \A m \in DOMAIN dir :
                (m = n \/ LexLess(n, m)) =>
                   /\ m \notin Range(execLog)
                   /\ m \notin conn.applied \cup conn.partial
    /\ AtMalformed =>
          /\ pc \in {"mig_parse", "finally", "failed"}
          /\ Range(execLog) = DOMAIN dir \ ({mig.file} \cup Range(mig.queue))
          /\ conn.applied = Range(execLog)
          /\ conn.partial = {}
          /\ Len(conn.tracking) = Len(execLog)
          /\ \A j \in DOMAIN execLog :
                conn.tracking[j].version = VersionOf(execLog[j])
          /\ disk.db = conn

\* C6 (as claimed): a malformed file name makes run_migrations fail with the
\* malformed-name error before that file's script is executed and before any
\* further migration runs, leaving schema and tracking table as they were.
C6_MalformedNameError ==
    /\ MalformedLeavesStore
    /\ AtMalformed /\ pc # "mig_parse" => error = "ValueError"

\* C6 (amended): as claimed, except that the file is read before its name is
\* checked, so the failure is the malformed-name error when the contents
\* decode as text and the decoding error when they do not.
C6_MalformedNameAborts ==
    /\ MalformedLeavesStore
    /\ AtMalformed /\ pc # "mig_parse" =>
          error = IF Decodable(dir[mig.file].bytes) THEN "ValueError"
                  ELSE "UnicodeDecodeError"

C6_Witness ==
    /\ pc = "failed"
    /\ error = "ValueError"
    /\ AtMalformed
    /\ Len(disk.db.tracking) = 1

\* C7: the checksum of every tracking record is the SHA-384 digest of the
\* exact bytes of the migration file it records.
C7_ChecksumOfExactBytes ==
    \A j \in DOMAIN conn.tracking :
       j <= Len(execLog) =>
          conn.tracking[j].checksum = Sha384(dir[execLog[j]].bytes)

\* the feed_tags rows of feed fid
TagsOfFeed(db, fid) == {j \in DOMAIN db.feed_tags : db.feed_tags[j][1] = fid}

\* C8: during and after create_feeds every feed has 0 to 5 feed_tags rows,
\* no (feed_id, tag_id) pair occurs twice, every row references a feed
\* inserted by create_feeds and a tag of the list create_tags returned, for
\* every tag list (empty and shorter than 5 included), and no insert aborts
\* the run.
C8_FeedTagsWellFormed ==
    /\ error = "none"
    /\ pc \in {"feeds", "art_suspend"}
    /\ \A k \in DOMAIN conn.feeds :
          Cardinality(TagsOfFeed(conn, conn.feeds[k].id)) <= 5
    /\ \A j1, j2 \in DOMAIN conn.feed_tags :
          conn.feed_tags[j1] = conn.feed_tags[j2] => j1 = j2
    /\ \A j \in DOMAIN conn.feed_tags :
          /\ conn.feed_tags[j][1] \in Range(feed_ids)
          /\ \E k \in DOMAIN conn.feeds : conn.feeds[k].id = conn.feed_tags[j][1]
          /\ conn.feed_tags[j][2] \in Range(tag_ids)
    /\ pc = "art_suspend" =>
          /\ Len(conn.feeds) = cfg.NUM_FEEDS
          /\ Len(feed_ids) = cfg.NUM_FEEDS
          /\ disk.db = conn

C8_Witness ==
    /\ pc = "art_suspend"
    /\ Len(tag_ids) = 6
    /\ Len(conn.feeds) = 2
    /\ Cardinality(TagsOfFeed(conn, 1)) = 5
    /\ Cardinality(TagsOfFeed(conn, 2)) = 0

\* C9: whatever was at DB_PATH before the run, main deletes it first: from
\* then on the store is a file this run created, and after a complete run
\* the row counts of tags, feeds, articles, articles_fts and the tracking
\* table are those the configuration and the migration directory determine,
\* the same as for a target that never existed.
C9_RerunRebuildsFromScratch ==
    /\ pc # "main" =>
          /\ disk.exists => disk.db.gen = 1
          /\ open => conn.gen = 1
    /\ pc = "done" =>
          /\ disk.exists
          /\ Len(disk.db.tags) = Min(NUM_TAGS, TagVocabulary)
          /\ Len(disk.db.feeds) = cfg.NUM_FEEDS
          /\ Len(disk.db.articles) = cfg.NUM_ARTICLES
          /\ Len(disk.db.fts) = cfg.NUM_ARTICLES
          /\ Len(disk.db.tracking) = Cardinality(DOMAIN dir)

C9_Witness ==
    /\ pc = "done"
    /\ disk.removed
    /\ Len(disk.db.articles) >= 2
    /\ Len(disk.db.tracking) = 2

\* C10: from every store whose FTS mirror is in sync at entry to
\* create_articles, after the rebuild step the mirror holds exactly one entry
\* per article, none missing and none twice.
C10_RebuildExactCopy ==
    pc \in {"art_triggers", "stats", "finally", "failed"} => MirrorExact(conn)

\* none of the three maintenance triggers is installed
Suspended(db) == db.triggers \cap AllTriggers = {}

\* C11: in create_articles the triggers are removed, and the removal is
\* committed, before the first batch is inserted; every batch is inserted
\* with none of the three triggers installed and leaves the FTS mirror
\* unchanged; the mirror is repopulated only after the last batch (the
\* remainder included) is committed; and at return all three triggers are
\* installed and committed, whether or not they existed on entry.
C11_TwoStateProtocol ==
    /\ [](/\ pc \in {"art_loop", "art_rebuild"} =>
                Suspended(conn) /\ Suspended(disk.db)
          /\ pc = "stats" =>
                /\ AllTriggers \subseteq conn.triggers
                /\ AllTriggers \subseteq disk.db.triggers)
    /\ [][/\ conn'.articles # conn.articles =>
                /\ pc = "art_loop"
                /\ Suspended(conn) /\ Suspended(disk.db)
                /\ Suspended(conn')
                /\ conn'.fts = conn.fts
          /\ conn'.fts # conn.fts =>
                /\ pc = "art_rebuild"
                /\ Len(Flat(flushed)) = cfg.NUM_ARTICLES
                /\ disk.db.articles = conn.articles
                /\ conn'.articles = conn.articles]_vars

C11_Witness ==
    /\ pc = "stats"
    /\ conn.triggers = AllTriggers
    /\ disk.db.triggers = AllTriggers
    /\ Len(flushed) = 2
    /\ Len(flushed[2]) = 1
    /\ Len(conn.fts) >= 3

\* sequence s is an initial segment of sequence t
IsPrefix(s, t) == Len(s) <= Len(t) /\ SubSeq(t, 1, Len(s)) = s

\* the rows of the tracking table and of the seeded tables
DurableRows(db) == <<db.tracking, db.tags, db.feeds, db.feed_tags, db.articles>>

\* the committed rows of db are still in db2, in place
StaysDurable(db, db2) ==
    /\ IsPrefix(db.tracking, db2.tracking)
    /\ IsPrefix(db.tags, db2.tags)
    /\ IsPrefix(db.feeds, db2.feeds)
    /\ IsPrefix(db.feed_tags, db2.feed_tags)
    /\ IsPrefix(db.articles, db2.articles)

\* the stages and what is committed when each of them runs
StagesInOrder ==
    /\ pc \in {"main", "connect", "mig_begin", "mig_loop", "mig_parse",
               "mig_exec", "mig_record", "mig_return"} =>
          /\ conn.tags = <<>> /\ conn.feeds = <<>>
          /\ conn.articles = <<>> /\ stats = <<>>
    /\ pc = "tags" =>
          /\ disk.db.tracking = conn.tracking
          /\ disk.db.tags = <<>>
          /\ conn.feeds = <<>> /\ conn.articles = <<>> /\ stats = <<>>
    /\ pc = "feeds" =>
          /\ disk.db.tags = conn.tags
          /\ Len(conn.tags) = Min(NUM_TAGS, TagVocabulary)
          /\ disk.db.feeds = <<>> /\ disk.db.feed_tags = <<>>
          /\ conn.articles = <<>> /\ stats = <<>>
    /\ pc \in {"art_suspend", "art_loop", "art_rebuild", "art_triggers"} =>
          /\ disk.db.tags = conn.tags
          /\ disk.db.feeds = conn.feeds
          /\ disk.db.feed_tags = conn.feed_tags
          /\ Len(conn.feeds) = cfg.NUM_FEEDS
          /\ disk.db.articles = conn.articles
          /\ stats = <<>>
    /\ pc = "stats" => disk.db = conn /\ stats = <<>>
    /\ stats # <<>> => error = "none" /\ Len(disk.db.articles) = cfg.NUM_ARTICLES

\* what is durable once a stage has failed: whole transactions only
WholeTransactionsOnly ==
    error # "none" =>
        /\ Len(disk.db.tags) \in {0, Min(NUM_TAGS, TagVocabulary)}
        /\ Len(disk.db.feeds) \in {0, cfg.NUM_FEEDS}
        /\ disk.db.feeds = <<>> => disk.db.feed_tags = <<>>
        /\ Len(disk.db.articles) = Len(Flat(flushed))

\* C12: the stages run in the order migrations, tags, feeds, articles,
\* stats, each stage committed before the next begins; when a stage fails
\* the transaction open at the failure (the tag phase, the feed phase with
\* its feed_tags rows, or the current article batch) is not durable, every
\* transaction committed before stays durable, and the connection is closed
\* on the success path and on the failure path.
C12_StagesAndDurability ==
    /\ [](/\ StagesInOrder
          /\ WholeTransactionsOnly
          /\ pc \in {"done", "failed"} => ~open /\ conn = disk.db
          /\ pc = "done" => error = "none"
          /\ pc = "failed" => error # "none")
    /\ [][/\ pc # "main" => StaysDurable(disk.db, disk'.db)
          /\ (error = "none" /\ error' # "none") =>
                 DurableRows(disk'.db) = DurableRows(disk.db)
          /\ pc = "finally" => disk' = disk /\ ~open']_vars

\* a batch flush failed with one record inserted and uncommitted, after the
\* tag and feed phases were committed
C12_Witness ==
    /\ pc = "finally"
    /\ error = "OperationalError"
    /\ Len(disk.db.tags) = Min(NUM_TAGS, TagVocabulary)
    /\ Len(disk.db.feeds) = 1
    /\ disk.db.articles = <<>>
    /\ Len(conn.articles) = 1
    /\ Len(articles_batch) = 2

====
